---------------------------- MODULE Spec2Model ----------------------------
(***************************************************************************)
(* A model of uzi, a codec for the UCI chess protocol.                     *)
(*                                                                         *)
(*   src/src/gui.rs     PosBuilder, GuiCmd::try_from                       *)
(*   src/src/engcmd.rs  Display for EngCmd, Info, Score, MultiPv,          *)
(*                      Refutation, CurrLine, ScoreBound                   *)
(*   src/src/err.rs     UziErr                                             *)
(*                                                                         *)
(* Text is a sequence of characters, each a string.  Option<T> is a       *)
(* record with a field some, Result<T, E> a record with a field ok.        *)
(***************************************************************************)
EXTENDS Integers, Sequences, FiniteSets, TLC

VARIABLES
    pos,      \* PosBuilder.pos: Option<PosOpt>
    moves,    \* PosBuilder.moves: Option<Vec<String>>
    log,      \* the calls made on the builder so far, each with what it returned
    line,     \* the &str handed to GuiCmd::try_from
    parsed,   \* what GuiCmd::try_from did with it
    cmd,      \* the EngCmd handed to Display::fmt
    out       \* the text Display::fmt wrote

vars == <<pos, moves, log, line, parsed, cmd, out>>

posVars == <<pos, moves, log>>
parseVars == <<line, parsed>>
fmtVars == <<cmd, out>>

----------------------------------------------------------------------------
(* Option and Result *)

None == [some |-> FALSE]
Some(v) == [some |-> TRUE, v |-> v]

Ok(v) == [ok |-> TRUE, val |-> v]
Err(e) == [ok |-> FALSE, err |-> e]

(* The members of UziErr. *)
UziErr ==
    {"BadBool", "BadMillis", "BadNumber", "BadOpponent", "BadPlayerType",
     "BadTitle", "GoErr", "MissingCmd", "MissingOnOff", "NothingSetForGo",
     "Position", "SetOptErr", "UnknownOpt", "What"}

----------------------------------------------------------------------------
(* Bounds and the inputs the model draws from *)

MaxCalls == 6

FenTexts == {"8/8/8/8/8/8/8/K6k w - - 0 1", "8/8/8/8/8/8/8/k6K b - - 3 9"}
MoveToks == {"e2e4", "e7e5"}

----------------------------------------------------------------------------
(* PosBuilder *)

StartPos == [tag |-> "StartPos"]
Fen(text) == [tag |-> "Fen", text |-> text]

PosOpt == {StartPos} \cup {Fen(t) : t \in FenTexts}

Pos(p, m) == [pos |-> p, moves |-> m]

Call(op, arg, ret) == [op |-> op, arg |-> arg, ret |-> ret]

(* PosBuilder::new *)
InitPos ==
    /\ pos = None
    /\ moves = None
    /\ log = <<>>

start_pos ==
    /\ Len(log) < MaxCalls
    /\ pos' = Some(StartPos)
    /\ log' = Append(log, Call("start_pos", "", None))
    /\ UNCHANGED moves

(* fen() that keeps a base position already set. *)
fenMutFirstWins(text) ==
    /\ Len(log) < MaxCalls
    /\ pos' = IF pos.some THEN pos ELSE Some(Fen(text))
    /\ log' = Append(log, Call("fen", text, None))
    /\ UNCHANGED moves

fen(text) ==
    /\ Len(log) < MaxCalls
    /\ pos' = Some(Fen(text))
    /\ log' = Append(log, Call("fen", text, None))
    /\ UNCHANGED moves

(* add_move() that puts the move in front. *)
add_moveMutPrepend(mv) ==
    /\ Len(log) < MaxCalls
    /\ moves' = IF moves.some THEN Some(<<mv>> \o moves.v) ELSE Some(<<mv>>)
    /\ log' = Append(log, Call("add_move", mv, None))
    /\ UNCHANGED pos

add_move(mv) ==
    /\ Len(log) < MaxCalls
    /\ moves' = IF moves.some THEN Some(Append(moves.v, mv)) ELSE Some(<<mv>>)
    /\ log' = Append(log, Call("add_move", mv, None))
    /\ UNCHANGED pos

(* build() that takes the moves out before it tests the base position. *)
BuildMutDropsOnErr(p, m) ==
    IF ~p.some
    THEN [pos |-> p, moves |-> None, ret |-> Err("Position")]
    ELSE [pos |-> None, moves |-> None, ret |-> Ok(Pos(p.v, m))]

(* build() that clones the fields and leaves them in the builder. *)
BuildMutTakesNothing(p, m) ==
    IF ~p.some
    THEN [pos |-> p, moves |-> m, ret |-> Err("Position")]
    ELSE [pos |-> p, moves |-> m, ret |-> Ok(Pos(p.v, m))]

(* build() that fails only when nothing at all was set. *)
BuildMutNoCheck(p, m) ==
    IF ~p.some /\ ~m.some
    THEN [pos |-> p, moves |-> m, ret |-> Err("Position")]
    ELSE [pos |-> None, moves |-> None,
          ret |-> Ok(Pos(IF p.some THEN p.v ELSE StartPos, m))]

(* What build() leaves in the builder and what it returns. *)
Build(p, m) ==
    IF ~p.some
    THEN [pos |-> p, moves |-> m, ret |-> Err("Position")]
    ELSE [pos |-> None, moves |-> None, ret |-> Ok(Pos(p.v, m))]

build ==
    /\ Len(log) < MaxCalls
    /\ LET b == Build(pos, moves) IN
        /\ pos' = b.pos
        /\ moves' = b.moves
        /\ log' = Append(log, Call("build", "", b.ret))

NextPos ==
    \/ start_pos /\ UNCHANGED <<parseVars, fmtVars>>
    \/ (\E text \in FenTexts : fen(text)) /\ UNCHANGED <<parseVars, fmtVars>>
    \/ (\E mv \in MoveToks : add_move(mv)) /\ UNCHANGED <<parseVars, fmtVars>>
    \/ build /\ UNCHANGED <<parseVars, fmtVars>>

----------------------------------------------------------------------------
(* Text *)

(* char::is_whitespace, the test str::split_whitespace splits by: the 25   *)
(* characters with the Unicode property White_Space.  A character outside  *)
(* printable ASCII and the escapes \t \n \f \r is written by its code      *)
(* point, "U+00A0" standing for the one character U+00A0.                  *)
WhiteSpace ==
    {"\t", "\n", "U+000B", "\f", "\r", " ", "U+0085", "U+00A0", "U+1680",
     "U+2000", "U+2001", "U+2002", "U+2003", "U+2004", "U+2005", "U+2006",
     "U+2007", "U+2008", "U+2009", "U+200A", "U+2028", "U+2029", "U+202F",
     "U+205F", "U+3000"}

MaxLen == 3

LineChars == WhiteSpace \cup {"u", "c", "i"}

TextsUpTo(n) == UNION {[1..k -> LineChars] : k \in 0..n}

Lines == TextsUpTo(MaxLen)

(* str::split_whitespace, collected: the maximal runs of non-whitespace *)
(* characters, in order.                                                *)
RECURSIVE SplitWhitespace(_)
SplitWhitespace(s) ==
    IF s = <<>> THEN <<>>
    ELSE IF Head(s) \in WhiteSpace THEN SplitWhitespace(Tail(s))
    ELSE LET n == CHOOSE k \in 1..Len(s) :
                      /\ \A j \in 1..k : s[j] \notin WhiteSpace
                      /\ (k = Len(s) \/ s[k + 1] \in WhiteSpace)
         IN <<SubSeq(s, 1, n)>> \o SplitWhitespace(SubSeq(s, n + 1, Len(s)))

----------------------------------------------------------------------------
(* GuiCmd::try_from *)

Pending == [kind |-> "pending"]
Returned(r) == [kind |-> "returned", ret |-> r]
Panicked(msg) == [kind |-> "panic", msg |-> msg]

(* try_from that tests the line, not its words, for emptiness. *)
TryFromMutEmptyStr(s) ==
    IF s = <<>>
    THEN Returned(Err("MissingCmd"))
    ELSE Panicked("not yet implemented")

(* The body of try_from: the words are split off, an empty list of words *)
(* is MissingCmd, and anything else reaches todo!().                     *)
TryFrom(s) ==
    LET words == SplitWhitespace(s) IN
    IF words = <<>>
    THEN Returned(Err("MissingCmd"))
    ELSE Panicked("not yet implemented")

try_from ==
    /\ parsed = Pending
    /\ parsed' = TryFrom(line)
    /\ UNCHANGED line

NextParse ==
    try_from /\ UNCHANGED <<posVars, fmtVars>>

----------------------------------------------------------------------------
(* The literal pieces of the format strings in engcmd.rs *)

Sp == <<" ">>

KwInfo == <<"i", "n", "f", "o">>
KwDepth == <<"d", "e", "p", "t", "h">>
KwSelDepth == <<"s", "e", "l", "d", "e", "p", "t", "h">>
KwNode == <<"n", "o", "d", "e">>
KwTime == <<"t", "i", "m", "e">>
KwPv == <<"p", "v">>
KwMultiPv == <<"m", "u", "l", "t", "i", "p", "v">>
KwScore == <<"s", "c", "o", "r", "e">>
KwCp == <<"c", "p">>
KwCurrMove == <<"c", "u", "r", "r", "m", "o", "v", "e">>
KwHashFull == <<"h", "a", "s", "h", "f", "u", "l", "l">>
KwNps == <<"n", "p", "s">>
KwTbHits == <<"t", "b", "h", "i", "t", "s">>
KwSbHits == <<"s", "b", "h", "i", "t", "s">>
KwCpuLoad == <<"c", "p", "u", "l", "o", "a", "d">>
KwString == <<"s", "t", "r", "i", "n", "g">>
KwRefutation == <<"r", "e", "f", "u", "t", "a", "t", "i", "o", "n">>
KwCurrLine == <<"c", "u", "r", "r", "l", "i", "n", "e">>
KwBestMove == <<"b", "e", "s", "t", "m", "o", "v", "e">>
KwPonder == <<"p", "o", "n", "d", "e", "r">>
KwUciOk == <<"u", "c", "i", "o", "k">>
KwReadyOk == <<"r", "e", "a", "d", "y", "o", "k">>
KwId == <<"i", "d">>
KwName == <<"n", "a", "m", "e">>
KwAuthor == <<"a", "u", "t", "h", "o", "r">>
KwLowerBound == <<"l", "o", "w", "e", "r", "b", "o", "u", "n", "d">>
KwUpperBound == <<"u", "p", "p", "e", "r", "b", "o", "u", "n", "d">>

----------------------------------------------------------------------------
(* Display of the values the format strings take *)

Digits == <<"0", "1", "2", "3", "4", "5", "6", "7", "8", "9">>

(* Display of an unsigned integer: its decimal digits, no leading zero. *)
RECURSIVE DecNat(_)
DecNat(n) ==
    IF n < 10 THEN <<Digits[n + 1]>>
    ELSE DecNat(n \div 10) \o <<Digits[(n % 10) + 1]>>

(* Display of a signed integer. *)
Dec(n) == IF n < 0 THEN <<"-">> \o DecNat(-n) ELSE DecNat(n)

(* Duration::as_millis: whole milliseconds, the rest of the nanoseconds dropped. *)
AsMillis(d) == d.secs * 1000 + d.nanos \div 1000000

(* A Pm is a half-move in coordinate notation: the files and ranks, each in  *)
(* 1..8, of the square it leaves and the square it reaches.                  *)
Files == <<"a", "b", "c", "d", "e", "f", "g", "h">>

Pm(ff, fr, tf, tr) == [ff |-> ff, fr |-> fr, tf |-> tf, tr |-> tr]

PmDisplay(pm) ==
    <<Files[pm.ff], Digits[pm.fr + 1], Files[pm.tf], Digits[pm.tr + 1]>>

(* for pm in v { write!(formatter, " {}", pm)?; } *)
RECURSIVE PmListFmt(_)
PmListFmt(v) ==
    IF v = <<>> THEN <<>>
    ELSE Sp \o PmDisplay(Head(v)) \o PmListFmt(Tail(v))

ScoreBoundAsStr(b) ==
    CASE b = "Lower" -> KwLowerBound
      [] b = "Upper" -> KwUpperBound

ScoreFmt(sc) ==
    KwScore \o Sp \o KwCp \o Sp \o Dec(sc.cp)
    \o (IF sc.mate.some THEN Sp \o Dec(sc.mate.v) ELSE <<>>)
    \o (IF sc.bound.some THEN Sp \o ScoreBoundAsStr(sc.bound.v) ELSE <<>>)

MultiPvFmt(m) == KwMultiPv \o Sp \o DecNat(m.rank) \o PmListFmt(m.moves)

RefutationFmt(r) ==
    KwRefutation \o Sp \o PmDisplay(r.refuted_move) \o PmListFmt(r.moves)

CurrLineFmt(c) ==
    KwCurrLine
    \o (IF c.cpu_id.some THEN Sp \o DecNat(c.cpu_id.v) ELSE <<>>)
    \o PmListFmt(c.line)

----------------------------------------------------------------------------
(* Display for Info: one `if let Some(..)` per field, in this order *)

SegDepth(i) == IF i.depth.some THEN Sp \o KwDepth \o Sp \o DecNat(i.depth.v) ELSE <<>>

SegSelDepth(i) == IF i.sel_depth.some THEN Sp \o KwSelDepth \o Sp \o DecNat(i.sel_depth.v) ELSE <<>>

SegNode(i) == IF i.node.some THEN Sp \o KwNode \o Sp \o DecNat(i.node.v) ELSE <<>>

SegTime(i) == IF i.time.some THEN Sp \o KwTime \o Sp \o DecNat(AsMillis(i.time.v)) ELSE <<>>

SegPv(i) == IF i.pv.some THEN Sp \o KwPv \o PmListFmt(i.pv.v) ELSE <<>>

SegMultiPv(i) == IF i.multi_pv.some THEN Sp \o MultiPvFmt(i.multi_pv.v) ELSE <<>>

SegScore(i) == IF i.score.some THEN Sp \o ScoreFmt(i.score.v) ELSE <<>>

SegCurrMove(i) == IF i.curr_move.some THEN Sp \o KwCurrMove \o Sp \o PmDisplay(i.curr_move.v) ELSE <<>>

SegHashFull(i) == IF i.hash_full.some THEN Sp \o KwHashFull \o Sp \o DecNat(i.hash_full.v) ELSE <<>>

SegNps(i) == IF i.nodes_per_sec.some THEN Sp \o KwNps \o Sp \o DecNat(i.nodes_per_sec.v) ELSE <<>>

SegTbHits(i) == IF i.tb_hits.some THEN Sp \o KwTbHits \o Sp \o DecNat(i.tb_hits.v) ELSE <<>>

SegSbHits(i) == IF i.sb_hits.some THEN Sp \o KwSbHits \o Sp \o DecNat(i.sb_hits.v) ELSE <<>>

SegCpuLoad(i) == IF i.cpu_load.some THEN Sp \o KwCpuLoad \o Sp \o DecNat(i.cpu_load.v) ELSE <<>>

SegString(i) == IF i.string.some THEN Sp \o KwString \o Sp \o i.string.v ELSE <<>>

SegRefutation(i) == IF i.refutation.some THEN Sp \o RefutationFmt(i.refutation.v) ELSE <<>>

SegCurrLine(i) == IF i.curr_line.some THEN Sp \o CurrLineFmt(i.curr_line.v) ELSE <<>>

(* Display for Info with multipv tested before pv. *)
InfoFmtMutOrder(i) ==
    KwInfo
    \o SegDepth(i) \o SegSelDepth(i) \o SegNode(i) \o SegTime(i)
    \o SegMultiPv(i) \o SegPv(i) \o SegScore(i) \o SegCurrMove(i)
    \o SegHashFull(i) \o SegNps(i) \o SegTbHits(i) \o SegSbHits(i)
    \o SegCpuLoad(i) \o SegString(i) \o SegRefutation(i) \o SegCurrLine(i)

InfoFmt(i) ==
    KwInfo
    \o SegDepth(i) \o SegSelDepth(i) \o SegNode(i) \o SegTime(i)
    \o SegPv(i) \o SegMultiPv(i) \o SegScore(i) \o SegCurrMove(i)
    \o SegHashFull(i) \o SegNps(i) \o SegTbHits(i) \o SegSbHits(i)
    \o SegCpuLoad(i) \o SegString(i) \o SegRefutation(i) \o SegCurrLine(i)

----------------------------------------------------------------------------
(* Display for EngCmd *)

UciOk == [tag |-> "UciOk"]
ReadyOk == [tag |-> "ReadyOk"]
IdName(name) == [tag |-> "IdName", name |-> name]
IdAuthor(author) == [tag |-> "IdAuthor", author |-> author]
BestMove(best, ponder) == [tag |-> "BestMove", best |-> best, ponder |-> ponder]
Info(info) == [tag |-> "Info", info |-> info]

(* The BestMove arm with the ponder keyword written in every case. *)
BestMoveFmtMutPonder(best, ponder) ==
    KwBestMove \o Sp \o PmDisplay(best) \o Sp \o KwPonder
    \o (IF ponder.some THEN Sp \o PmDisplay(ponder.v) ELSE <<>>)

(* The BestMove arm. *)
BestMoveFmt(best, ponder) ==
    KwBestMove \o Sp \o PmDisplay(best)
    \o (IF ponder.some THEN Sp \o KwPonder \o Sp \o PmDisplay(ponder.v) ELSE <<>>)

(* The HasOpt arm hands over to HasOpt's own Display, which is no part of *)
(* these sources; no HasOpt command is drawn.                             *)
EngCmdFmt(c) ==
    CASE c.tag = "UciOk" -> KwUciOk
      [] c.tag = "ReadyOk" -> KwReadyOk
      [] c.tag = "IdName" -> KwId \o Sp \o KwName \o Sp \o c.name
      [] c.tag = "IdAuthor" -> KwId \o Sp \o KwAuthor \o Sp \o c.author
      [] c.tag = "Info" -> InfoFmt(c.info)
      [] c.tag = "BestMove" -> BestMoveFmt(c.best, c.ponder)

----------------------------------------------------------------------------
(* The commands the model formats *)

Opt(S) == {None} \cup {Some(v) : v \in S}

e2e4 == Pm(5, 2, 5, 4)
e7e5 == Pm(5, 7, 5, 5)
e7e6 == Pm(5, 7, 5, 6)
g1f3 == Pm(7, 1, 6, 3)

PmVals == {e2e4, e7e5, e7e6, g1f3}

ScoreVals ==
    {[cp |-> 0, mate |-> None, bound |-> None],
     [cp |-> -214, mate |-> Some(-3), bound |-> Some("Lower")]}

InfoVals ==
    [depth : Opt({1, 12}),
     sel_depth : Opt({20}),
     node : Opt({123456}),
     time : Opt({[secs |-> 1, nanos |-> 242999999]}),
     pv : Opt({<<>>, <<e2e4, e7e5>>}),
     multi_pv : Opt({[rank |-> 1, moves |-> <<e2e4>>]}),
     score : Opt(ScoreVals),
     curr_move : Opt({e2e4}),
     hash_full : Opt({1000}),
     nodes_per_sec : Opt({34928}),
     tb_hits : Opt({0}),
     sb_hits : Opt({7}),
     cpu_load : Opt({1001}),
     string : Opt({<<"o", "k", " ", " ", "n", "o", "w">>}),
     refutation : Opt({[refuted_move |-> g1f3, moves |-> <<e7e5>>]}),
     curr_line : Opt({[cpu_id |-> Some(2), line |-> <<e2e4>>]})]

NameVals == {<<"u", "z", "i">>, <<"O", "m", "a", "r", " ", "S">>}

EngCmdVals ==
    {UciOk, ReadyOk}
    \cup {IdName(n) : n \in NameVals}
    \cup {IdAuthor(n) : n \in NameVals}
    \cup {BestMove(b, p) : b \in PmVals, p \in Opt(PmVals)}
    \cup {Info(i) : i \in InfoVals}

fmt ==
    /\ ~out.some
    /\ out' = Some(EngCmdFmt(cmd))
    /\ UNCHANGED cmd

NextFmt ==
    fmt /\ UNCHANGED <<posVars, parseVars>>

----------------------------------------------------------------------------
(* The three specifications *)

IdlePos == InitPos
IdleParse == line = <<>> /\ parsed = Pending
IdleFmt == cmd = UciOk /\ out = None

Init == InitPos /\ IdleParse /\ IdleFmt

Next == NextPos

Spec == Init /\ [][Next]_vars

InitParse == IdlePos /\ line \in Lines /\ parsed = Pending /\ IdleFmt

SpecParse == InitParse /\ [][NextParse]_vars

InitFmt == IdlePos /\ IdleParse /\ cmd \in EngCmdVals /\ out = None

SpecFmt == InitFmt /\ [][NextFmt]_vars

----------------------------------------------------------------------------
(* Reading the log of builder calls *)

IsSetter(c) == c.op \in {"start_pos", "fen"}
IsBuild(c) == c.op = "build"
IsOkBuild(c) == c.op = "build" /\ c.ret.ok

Max(S) == CHOOSE x \in S : \A y \in S : y <= x

(* The last successful build before call j, 0 when there is none: the *)
(* builder was fresh right after it.                                  *)
FreshAt(j) == Max({0} \cup {i \in 1..(j - 1) : IsOkBuild(log[i])})

(* The tokens of the add_move calls strictly between calls i and j. *)
TokensBetween(i, j) ==
    LET adds == SelectSeq(SubSeq(log, i + 1, j - 1), LAMBDA c : c.op = "add_move")
    IN [k \in 1..Len(adds) |-> adds[k].arg]

(* The base position the setter call c asks for. *)
BaseOf(c) == IF c.op = "start_pos" THEN StartPos ELSE Fen(c.arg)

MoveList(m) == IF m.some THEN m.v ELSE <<>>

----------------------------------------------------------------------------
(* C1: on a fresh PosBuilder, after any start_pos / fen / add_move calls,  *)
(* build() returns Err(Position) exactly when no start_pos or fen call was *)
(* among them, and otherwise Ok of a Pos whose base position is set.       *)
C1_BuildErrIffNoBase ==
    \A j \in 1..Len(log) :
        (IsBuild(log[j]) /\ \A k \in 1..(j - 1) : ~IsBuild(log[k])) =>
            IF \E k \in 1..(j - 1) : IsSetter(log[k])
            THEN log[j].ret.ok /\ log[j].ret.val.pos \in PosOpt
            ELSE log[j].ret = Err("Position")

C1_Witness ==
    /\ Len(log) = 3
    /\ log[1].op = "add_move" /\ log[2].op = "add_move"
    /\ log[3] = Call("build", "", Err("Position"))

(* C2: a successful build() leaves the builder as new() made it; a build() *)
(* right after it returns Err(Position); and a later successful build()    *)
(* carries none of the moves added before the earlier one.                 *)
C2_SingleUse ==
    \A i \in 1..Len(log) :
        IsOkBuild(log[i]) =>
            /\ i = Len(log) => (pos = None /\ moves = None)
            /\ (i < Len(log) /\ IsBuild(log[i + 1])) =>
                   log[i + 1].ret = Err("Position")
            /\ \A j \in (i + 1)..Len(log) :
                   (IsOkBuild(log[j]) /\ FreshAt(j) = i) =>
                       Len(MoveList(log[j].ret.val.moves))
                           = Len(TokensBetween(i, j))

C2_Witness ==
    /\ Len(log) = 6
    /\ log[1].op = "add_move"
    /\ IsSetter(log[2])
    /\ IsOkBuild(log[3]) /\ log[3].ret.val.moves = Some(<<log[1].arg>>)
    /\ log[4] = Call("build", "", Err("Position"))
    /\ IsSetter(log[5])
    /\ IsOkBuild(log[6]) /\ log[6].ret.val.moves = None

(* C3: the base position build() returns is the one of the most recent     *)
(* start_pos / fen call; a setter returns no error, whether or not a base  *)
(* position was set before, and the accumulated moves are what the         *)
(* add_move calls made them, however many setter calls came between.       *)
C3_LastSetterWins ==
    /\ \A j \in 1..Len(log) :
           /\ IsOkBuild(log[j]) =>
                  LET k == Max({0} \cup {n \in 1..(j - 1) : IsSetter(log[n])})
                  IN k > 0 /\ log[j].ret.val.pos = BaseOf(log[k])
           /\ IsSetter(log[j]) => log[j].ret = None
    /\ LET n == Len(log) + 1
       IN MoveList(moves) = TokensBetween(FreshAt(n), n)

C3_Witness ==
    /\ Len(log) = 5
    /\ log[1].op = "start_pos"
    /\ log[2].op = "add_move"
    /\ log[3].op = "fen"
    /\ log[4].op = "fen" /\ log[4].arg # log[3].arg
    /\ IsOkBuild(log[5])
    /\ log[5].ret.val = Pos(Fen(log[4].arg), Some(<<log[2].arg>>))

(* C4: the moves of the Pos a successful build() returns are the tokens of *)
(* the add_move calls made since the builder was fresh, in call order.     *)
C4_MovesInCallOrder ==
    \A j \in 1..Len(log) :
        IsOkBuild(log[j]) =>
            MoveList(log[j].ret.val.moves) = TokensBetween(FreshAt(j), j)

C4_Witness ==
    /\ Len(log) = 5
    /\ log[1] = Call("add_move", "e2e4", None)
    /\ log[2].op = "fen"
    /\ log[3] = Call("add_move", "e7e5", None)
    /\ log[4] = Call("add_move", "e2e4", None)
    /\ IsOkBuild(log[5])
    /\ log[5].ret.val.moves = Some(<<"e2e4", "e7e5", "e2e4">>)

----------------------------------------------------------------------------
(* C5: a line that is empty or all whitespace is answered with             *)
(* Err(MissingCmd), before the dispatch on the keyword is reached.         *)
C5_BlankIsMissingCmd ==
    (parsed # Pending /\ \A k \in 1..Len(line) : line[k] \in WhiteSpace) =>
        parsed = Returned(Err("MissingCmd"))

C5_Witness ==
    /\ parsed = Returned(Err("MissingCmd"))
    /\ line = <<"\t", "\f", "U+00A0">>

(* C6: whatever the line, try_from returns Ok or Err and never panics.     *)
C6_ParserAlwaysReturns ==
    parsed # Pending =>
        /\ parsed.kind = "returned"
        /\ (parsed.ret.ok \/ parsed.ret.err \in UziErr)

----------------------------------------------------------------------------
(* Reading a formatted line *)

(* The sixteen keywords of an info line, in the order of section 4.5. *)
InfoKeywords ==
    <<KwDepth, KwSelDepth, KwNode, KwTime, KwPv, KwMultiPv, KwScore,
      KwCurrMove, KwHashFull, KwNps, KwTbHits, KwSbHits, KwCpuLoad,
      KwString, KwRefutation, KwCurrLine>>

(* Which of the sixteen fields of an Info are set, in the same order. *)
Present(i) ==
    <<i.depth.some, i.sel_depth.some, i.node.some, i.time.some, i.pv.some,
      i.multi_pv.some, i.score.some, i.curr_move.some, i.hash_full.some,
      i.nodes_per_sec.some, i.tb_hits.some, i.sb_hits.some, i.cpu_load.some,
      i.string.some, i.refutation.some, i.curr_line.some>>

IsInfoKeyword(w) ==
    w = KwInfo \/ \E k \in 1..Len(InfoKeywords) : InfoKeywords[k] = w

(* The keywords among the words of a line, in the order they stand in it.  *)
(* None of the payloads drawn in InfoVals is itself a keyword.             *)
KeywordsIn(text) == SelectSeq(SplitWhitespace(text), IsInfoKeyword)

KeywordsOfSet(i) ==
    LET idx == SelectSeq([k \in 1..Len(InfoKeywords) |-> k],
                         LAMBDA k : Present(i)[k])
    IN <<KwInfo>> \o [n \in 1..Len(idx) |-> InfoKeywords[idx[n]]]

RECURSIVE Join(_, _)
Join(ws, sep) ==
    IF ws = <<>> THEN <<>>
    ELSE IF Len(ws) = 1 THEN ws[1]
    ELSE ws[1] \o sep \o Join(Tail(ws), sep)

----------------------------------------------------------------------------
(* C7: the line of an Info starts with `info` and then holds one keyword   *)
(* for each field that is set and none for a field that is not, in the     *)
(* order depth, seldepth, node, time, pv, multipv, score, currmove,        *)
(* hashfull, nps, tbhits, sbhits, cpuload, string, refutation, currline.   *)
C7_InfoFieldOrder ==
    (cmd.tag = "Info" /\ out.some) =>
        KeywordsIn(out.v) = KeywordsOfSet(cmd.info)

C7_Witness ==
    /\ cmd.tag = "Info" /\ out.some
    /\ Present(cmd.info)
         = <<FALSE, FALSE, TRUE, FALSE, TRUE, TRUE, TRUE, FALSE,
             FALSE, TRUE, FALSE, FALSE, FALSE, TRUE, FALSE, TRUE>>
    /\ KeywordsIn(out.v)
         = <<KwInfo, KwNode, KwPv, KwMultiPv, KwScore, KwNps, KwString, KwCurrLine>>

(* C8: an Info with sel_depth set has depth set, so a line with a seldepth *)
(* keyword has a depth keyword before it.                                  *)
C8_SelDepthImpliesDepth ==
    (cmd.tag = "Info" /\ out.some) =>
        /\ cmd.info.sel_depth.some => cmd.info.depth.some
        /\ LET kw == KeywordsIn(out.v) IN
           \A k \in 1..Len(kw) :
               kw[k] = KwSelDepth => \E j \in 1..(k - 1) : kw[j] = KwDepth

(* C10: BestMove is written as `bestmove <best>`, followed by              *)
(* ` ponder <ponder>` when a ponder move is set, the words one space       *)
(* apart, each move as its own Display writes it, nothing after the last.  *)
C10_BestMoveText ==
    (cmd.tag = "BestMove" /\ out.some) =>
        /\ out.v = Join(IF cmd.ponder.some
                        THEN <<KwBestMove, PmDisplay(cmd.best),
                               KwPonder, PmDisplay(cmd.ponder.v)>>
                        ELSE <<KwBestMove, PmDisplay(cmd.best)>>, Sp)
        /\ out.v[Len(out.v)] \notin WhiteSpace
        /\ cmd = BestMove(e2e4, None) => out.v = <<"b", "e", "s", "t", "m", "o", "v", "e", " ", "e", "2", "e", "4">>
        /\ cmd = BestMove(e2e4, Some(e7e6)) =>
               out.v = <<"b", "e", "s", "t", "m", "o", "v", "e", " ", "e", "2", "e", "4", " ", "p", "o", "n", "d", "e", "r", " ", "e", "7", "e", "6">>

C10_Witness ==
    /\ cmd = BestMove(e2e4, Some(e7e6))
    /\ out.some
    /\ Len(out.v) = 25

----------------------------------------------------------------------------
(* C11: a build() that returns Err(Position) leaves the builder as it was: *)
(* no base position, and the moves added so far still in it, so that the   *)
(* next successful build() returns the moves added before the failed       *)
(* build() followed by those added after it, in call order.                *)
C11_FailedBuildKeepsMoves ==
    \A j \in 1..Len(log) :
        (IsBuild(log[j]) /\ ~log[j].ret.ok) =>
            /\ log[j].ret = Err("Position")
            /\ j = Len(log) =>
                   LET added == TokensBetween(FreshAt(j), j) IN
                   /\ pos = None
                   /\ moves = IF added = <<>> THEN None ELSE Some(added)
            /\ \A k \in (j + 1)..Len(log) :
                   (IsOkBuild(log[k]) /\ FreshAt(k) < j) =>
                       MoveList(log[k].ret.val.moves)
                           = TokensBetween(FreshAt(k), j) \o TokensBetween(j, k)

C11_Witness ==
    /\ Len(log) = 5
    /\ log[1] = Call("add_move", "e2e4", None)
    /\ log[2] = Call("add_move", "e7e5", None)
    /\ log[3] = Call("build", "", Err("Position"))
    /\ IsSetter(log[4])
    /\ IsOkBuild(log[5])
    /\ log[5].ret.val.moves = Some(<<"e2e4", "e7e5">>)

=============================================================================
